---- MODULE Spec2Model ----
(***************************************************************************)
(* The hourly-weather card (src/src/hourly-weather.ts): the configuration  *)
(* and update cycle of HourlyWeatherCard and the forecast-to-display       *)
(* pipeline that render() runs: determineHoursPerSegment,                  *)
(* getConditionListFromForecast, getTemperatures, isForecastDaily and      *)
(* getColorSettings.                                                       *)
(*                                                                         *)
(* Conventions.  JavaScript arrays are 0-based; a forecast is a TLA+       *)
(* sequence and At(a, i) is a[i].  A timestamp is an integer number of     *)
(* quarter hours (96 to the day) since local midnight, 1 January of a      *)
(* non-leap year, so that the rounding of determineHoursPerSegment and the *)
(* day-of-month of isForecastDaily are both computed, not assumed.  A      *)
(* string the code parses (num_hours, offset) is a sequence of             *)
(* one-character strings.  A call that dereferences undefined ends with    *)
(* threw = TRUE (a TypeError).                                             *)
(***************************************************************************)
EXTENDS Integers, Sequences, FiniteSets, TLC

VARIABLES
    config,   \* this.config: Undefined until a setConfig call succeeds
    hass,     \* this.hass: Undefined until the host assigns it
    view,     \* what the last update cycle's render() produced
    thrown,   \* how the last setConfig call ended
    args,     \* the arguments of a direct call of a pipeline function
    ret       \* the result of that call

vars == <<config, hass, view, thrown, args, ret>>

\* undefined and null where a string or an array is expected
Undefined == "undefined"
Null == "null"
NaN == "NaN"

\* undefined and null where an object is expected
UndefinedObject == [undefined |-> TRUE]
NullObject == [null |-> TRUE]

\* undefined where a string kept as its characters is expected
UndefinedString == <<Undefined>>

\* ------------------------------------------------------------------ bounds
MaxLen == 4            \* forecast entries
MaxTimestamps == 3     \* forecast entries of a direct call of the detector
MaxNumHours == 5       \* num_hours requested
MaxOffset == 3         \* offset requested
MaxHps == 3            \* hours per segment of a direct call
MaxColorEntries == 2   \* entries of a colour configuration

\* ------------------------------------------------------- JavaScript values
\* a[i] of a JavaScript array: undefined outside 0 .. length - 1
InRange(a, i) == i \in 0 .. (Len(a) - 1)

At(a, i) == IF InRange(a, i) THEN a[i + 1] ELSE Undefined

\* Math.floor(n / d) for integers n and d # 0
MathFloorDiv(n, d) == IF d > 0 THEN n \div d ELSE (0 - n) \div (0 - d)

\* Math.round(n / d) for integers n and d > 0: halves round towards +Infinity
MathRoundDiv(n, d) == (2 * n + d) \div (2 * d)

\* a % b # 0 in JavaScript: NaN (b = 0) is not 0; the sign follows a
JsRemNonZero(a, b) ==
    IF b = 0 THEN TRUE
    ELSE LET m == IF b > 0 THEN b ELSE 0 - b IN (a % m) # 0

Digits == <<"0", "1", "2", "3", "4", "5", "6", "7", "8", "9">>

IsDigit(c) == \E d \in 1 .. 10 : Digits[d] = c

DigitVal(c) == (CHOOSE d \in 1 .. 10 : Digits[d] = c) - 1

RECURSIVE ParseDigits(_, _, _)
\* the digits of s from position p on, up to the first character that is none
ParseDigits(s, p, acc) ==
    IF p > Len(s) \/ ~IsDigit(s[p]) THEN acc
    ELSE ParseDigits(s, p + 1, 10 * acc + DigitVal(s[p]))

RECURSIVE SkipSpace(_, _)
SkipSpace(s, p) == IF p <= Len(s) /\ s[p] = " " THEN SkipSpace(s, p + 1) ELSE p

\* parseInt(s, 10): leading blanks, an optional sign, then decimal digits;
\* what follows the digits is ignored, and no digit at all gives NaN
parseInt(s) ==
    LET p == SkipSpace(s, 1)
        neg == p <= Len(s) /\ s[p] = "-"
        q == IF p <= Len(s) /\ s[p] \in {"-", "+"} THEN p + 1 ELSE p
    IN  IF q > Len(s) \/ ~IsDigit(s[q]) THEN NaN
        ELSE IF neg THEN 0 - ParseDigits(s, q, 0) ELSE ParseDigits(s, q, 0)

\* x ?? d, for a string kept as its characters
Coalesce(x, d) == IF x = UndefinedString THEN d ELSE x

\* ----------------------------------------------------------------- Date
MonthLengths == <<31, 28, 31, 30, 31, 30, 31, 31, 30, 31, 30, 31>>

RECURSIVE DayOfMonth(_, _)
\* the day of the month of day d (0-based) of a year, counted from month m
DayOfMonth(d, m) ==
    IF m > 12 THEN DayOfMonth(d, 1)
    ELSE IF d < MonthLengths[m] THEN d + 1
    ELSE DayOfMonth(d - MonthLengths[m], m + 1)

\* new Date(datetime).getTime(), in seconds rather than milliseconds, so that
\* dates months apart stay within 32-bit integers; every timestamp of the
\* model is a whole number of seconds
getTime(datetime) == datetime * 900

\* new Date(datetime).getDate(): the day of the month, 1 .. 31
getDate(datetime) == DayOfMonth(datetime \div 96, 1)

\* ------------------------------------------------------------- the pipeline
\* determineHoursPerSegment with the hours truncated instead of rounded
determineHoursPerSegmentTruncating(forecast) ==
    IF Len(forecast) < 2 THEN 1
    ELSE LET fs1 == At(forecast, 0)
             fs2 == At(forecast, 1)
             delta == getTime(fs2.datetime) - getTime(fs1.datetime)
         IN  MathFloorDiv(delta, 3600)

\* determineHoursPerSegment(forecast)
determineHoursPerSegment(forecast) ==
    IF Len(forecast) < 2 THEN 1
    ELSE LET fs1 == At(forecast, 0)
             fs2 == At(forecast, 1)
             \* delta / 1000, getTime being in seconds
             delta == getTime(fs2.datetime) - getTime(fs1.datetime)
         IN  MathRoundDiv(delta, 3600)

\* the bounds check with the offset forgotten
tooManyHoursIgnoringOffset(forecast, numHours, hoursPerSegment, offset) ==
    numHours > Len(forecast) * hoursPerSegment

\* the bounds check of render(): TRUE when the request is refused
tooManyHoursRequested(forecast, numHours, hoursPerSegment, offset) ==
    numHours > (Len(forecast) - offset) * hoursPerSegment

\* the loop condition of getConditionListFromForecast with the whole segments
\* of getTemperatures: i < Math.floor(numHours / hoursPerSegment) + offset
conditionLoopGuardFloor(i, numHours, hoursPerSegment, offset) ==
    IF hoursPerSegment = 0 THEN numHours > 0
    ELSE i < MathFloorDiv(numHours, hoursPerSegment) + offset

\* the loop condition of getConditionListFromForecast
conditionLoopGuard(i, numHours, hoursPerSegment, offset) ==
    i * hoursPerSegment < numHours + offset * hoursPerSegment

RECURSIVE conditionLoopNoMerge(_, _, _, _, _, _, _, _, _)
\* the loop with the comparison against lastCond lost: every entry opens a span
conditionLoopNoMerge(forecast, numHours, hoursPerSegment, offset, i, j, lastCond, res, reads) ==
    IF ~conditionLoopGuard(i, numHours, hoursPerSegment, offset)
    THEN [threw |-> FALSE, value |-> res, reads |-> reads]
    ELSE IF ~InRange(forecast, i)
    THEN [threw |-> TRUE, value |-> Undefined, reads |-> Append(reads, i)]
    ELSE LET cond == At(forecast, i).condition IN
         conditionLoopNoMerge(forecast, numHours, hoursPerSegment, offset, i + 1, j + 1,
                              cond, Append(res, <<cond, 1>>), Append(reads, i))

RECURSIVE conditionLoop(_, _, _, _, _, _, _, _, _)
\* the for loop of getConditionListFromForecast, from index i on
conditionLoop(forecast, numHours, hoursPerSegment, offset, i, j, lastCond, res, reads) ==
    IF ~conditionLoopGuard(i, numHours, hoursPerSegment, offset)
    THEN [threw |-> FALSE, value |-> res, reads |-> reads]
    ELSE IF ~InRange(forecast, i)
    THEN [threw |-> TRUE, value |-> Undefined, reads |-> Append(reads, i)]
    ELSE LET cond == At(forecast, i).condition IN
         IF cond = lastCond
         THEN conditionLoop(forecast, numHours, hoursPerSegment, offset, i + 1, j,
                            lastCond,
                            [res EXCEPT ![j + 1] = <<res[j + 1][1], res[j + 1][2] + 1>>],
                            Append(reads, i))
         ELSE conditionLoop(forecast, numHours, hoursPerSegment, offset, i + 1, j + 1,
                            cond, Append(res, <<cond, 1>>), Append(reads, i))

\* getConditionListFromForecast(forecast, numHours, hoursPerSegment, offset):
\* value is the ConditionSpan[] returned, reads the forecast indices read
getConditionListFromForecast(forecast, numHours, hoursPerSegment, offset) ==
    IF ~InRange(forecast, offset)
    THEN [threw |-> TRUE, value |-> Undefined, reads |-> <<offset>>]
    ELSE LET lastCond == At(forecast, offset).condition IN
         conditionLoop(forecast, numHours, hoursPerSegment, offset, offset + 1, 0,
                       lastCond, <<<<lastCond, 1>>>>, <<offset>>)

\* formatNumber(n, locale) of custom-card-helpers, for the integers below 1000
\* the model uses: the decimal digits, no grouping
formatNumber(n) == ToString(n)

\* formatTime(time, locale) of custom-card-helpers: "h:mm AM" / "h:mm PM" for a
\* 12-hour locale, "HH:mm" for a 24-hour one; kept in parts
formatTime(datetime, locale) ==
    LET h == (datetime \div 4) % 24
        mm == <<":00", ":15", ":30", ":45">>[(datetime % 4) + 1]
        h12 == IF h % 12 = 0 THEN 12 ELSE h % 12
    IN  IF locale = "12"
        THEN [hour |-> ToString(h12), minute |-> mm,
              suffix |-> IF h < 12 THEN " AM" ELSE " PM"]
        ELSE [hour |-> IF h < 10 THEN "0" \o ToString(h) ELSE ToString(h),
              minute |-> mm, suffix |-> ""]

\* formatHour(time, locale): ':00' is dropped in 12 hour time
formatHour(datetime, locale) ==
    LET formatted == formatTime(datetime, locale) IN
    IF formatted.suffix = " AM" \/ formatted.suffix = " PM"
    THEN formatted.hour \o (IF formatted.minute = ":00" THEN "" ELSE formatted.minute)
             \o formatted.suffix
    ELSE formatted.hour \o formatted.minute \o formatted.suffix

\* the loop condition of getTemperatures with <= for <
temperatureLoopGuardInclusive(i, numHours, hoursPerSegment, offset) ==
    IF hoursPerSegment = 0 THEN numHours > 0
    ELSE i <= MathFloorDiv(numHours, hoursPerSegment) + offset

\* the loop condition of getTemperatures: i < Math.floor(numHours / hoursPerSegment) + offset
\* (a division by 0 gives Infinity, -Infinity or NaN)
temperatureLoopGuard(i, numHours, hoursPerSegment, offset) ==
    IF hoursPerSegment = 0 THEN numHours > 0
    ELSE i < MathFloorDiv(numHours, hoursPerSegment) + offset

RECURSIVE temperatureLoop(_, _, _, _, _, _, _, _)
\* the for loop of getTemperatures, from index i on
temperatureLoop(forecast, numHours, hoursPerSegment, offset, locale, i, temperatures, reads) ==
    IF ~temperatureLoopGuard(i, numHours, hoursPerSegment, offset)
    THEN [threw |-> FALSE, value |-> temperatures, reads |-> reads]
    ELSE IF ~InRange(forecast, i)
    THEN [threw |-> TRUE, value |-> Undefined, reads |-> Append(reads, i)]
    ELSE LET fs == At(forecast, i) IN
         temperatureLoop(forecast, numHours, hoursPerSegment, offset, locale, i + 1,
                         Append(temperatures,
                                [hour |-> formatHour(fs.datetime, locale),
                                 temperature |-> formatNumber(fs.temperature)]),
                         Append(reads, i))

\* getTemperatures(forecast, numHours, hoursPerSegment, offset), with this.hass.locale
getTemperatures(forecast, numHours, hoursPerSegment, offset, locale) ==
    temperatureLoop(forecast, numHours, hoursPerSegment, offset, locale, offset, <<>>, <<>>)

\* isForecastDaily(forecast)
isForecastDaily(forecast) ==
    LET dates == [i \in 1 .. Len(forecast) |-> getDate(forecast[i].datetime)]
        uniqueDates == {dates[i] : i \in 1 .. Len(forecast)}
    IN  Cardinality(uniqueDates) >= Len(forecast) - 1

\* ------------------------------------------------------------------ colours
\* the own keys of ICONS (./conditions): the recognized condition identifiers
ICONS == {"sunny", "cloudy", "rainy"}

\* the property names every ordinary object inherits from Object.prototype
ObjectPrototypeKeys == {"constructor", "toString"}

\* key in obj, for an ordinary object with the own keys ownKeys: the in
\* operator also finds the properties inherited along the prototype chain
KeyIn(key, ownKeys) == key \in ownKeys \/ key \in ObjectPrototypeKeys

\* isValidRGB, isValidColorName, isValidHSL of is-valid-css-color, on the
\* colour strings the model uses
isValidRGB(color) == color \in {"#fff", "rgb(0,0,0)"}

isValidColorName(color) == color \in {"red"}

isValidHSL(color) == color \in {"hsl(0,0%,0%)"}

\* isValidColor(key, color)
isValidColor(key, color) ==
    IF ~KeyIn(key, ICONS) THEN FALSE
    ELSE IF ~(isValidRGB(color) \/ isValidColorName(color) \/ isValidHSL(color))
    THEN FALSE
    ELSE TRUE

\* Map.prototype.set(k, v) on a Map kept as its entries in insertion order
MapSet(map, k, v) ==
    IF \E n \in 1 .. Len(map) : map[n][1] = k
    THEN [n \in 1 .. Len(map) |-> IF map[n][1] = k THEN <<k, v>> ELSE map[n]]
    ELSE Append(map, <<k, v>>)

RECURSIVE colorLoop(_, _, _, _)
\* the forEach of getColorSettings over Object.entries(colorConfig), from entry n on
colorLoop(entries, n, validColors, warnings) ==
    IF n > Len(entries) THEN [validColors |-> validColors, warnings |-> warnings]
    ELSE LET k == entries[n][1]
             v == entries[n][2]
         IN  IF isValidColor(k, v)
             THEN colorLoop(entries, n + 1, MapSet(validColors, k, v), warnings)
             ELSE colorLoop(entries, n + 1, validColors, Append(warnings, k \o ": " \o v))

\* getColorSettings(colorConfig); a present colorConfig is [entries |-> e], e
\* being Object.entries(colorConfig): a sequence of <<key, value>>, keys distinct
getColorSettings(colorConfig) ==
    IF colorConfig = UndefinedObject \/ colorConfig = NullObject
    THEN [validColors |-> Undefined, warnings |-> <<>>]
    ELSE colorLoop(colorConfig.entries, 1, <<>>, <<>>)

\* ------------------------------------------------------------------ the card
\* localize('common.title')
DefaultName == "Hourly Weather"

\* nothing rendered yet.  kind says what render() ended with: "error" (the
\* request error), "card" or "threw"; calls are the pipeline functions it
\* invoked, in order, and reads the forecast indices they read.  The numbers
\* mean something once determineHoursPerSegment is among the calls, the two
\* flags when kind is "card".
NoView ==
    [kind |-> "none", entity |-> Undefined, numHours |-> 0, offset |-> 0,
     hoursPerSegment |-> 0, length |-> 0, calls |-> <<>>, reads |-> <<>>,
     conditions |-> Undefined, temperatures |-> Undefined,
     isForecastDaily |-> FALSE, numHoursNotMultiple |-> FALSE,
     colors |-> Undefined, warnings |-> Undefined]

\* !x for a string field
Falsy(x) == x = Undefined \/ x = Null \/ x = ""

\* !x for an object
FalsyObject(x) == x = UndefinedObject \/ x = NullObject

\* setConfig without the check of config.entity
setConfigErrorNoEntityCheck(c) ==
    IF FalsyObject(c) THEN "invalid_configuration" ELSE "none"

\* setConfig(c): the error thrown, or "none"
setConfigError(c) ==
    IF FalsyObject(c) THEN "invalid_configuration"
    ELSE IF Falsy(c.entity) THEN "missing_entity"
    ELSE "none"

\* { name: localize('common.title'), ...config }
storedConfig(c) == [c EXCEPT !.name = IF c.name = Undefined THEN DefaultName ELSE c.name]

\* shouldUpdate(changedProps); changed is what hasConfigOrEntityChanged returns
shouldUpdate(cfg, changed) == IF FalsyObject(cfg) THEN FALSE ELSE changed

\* render(): the request error, the card, or a TypeError
render(cfg, h) ==
    IF FalsyObject(h) \/ cfg.entity \notin DOMAIN h.states
    THEN [NoView EXCEPT !.kind = "threw", !.entity = cfg.entity]
    ELSE
    LET forecast == h.states[cfg.entity]
        numHours == parseInt(Coalesce(cfg.num_hours, <<"1", "2">>))
        offset == parseInt(Coalesce(cfg.offset, <<"0">>))
        hoursPerSegment == determineHoursPerSegment(forecast)
        base == [NoView EXCEPT !.entity = cfg.entity, !.numHours = numHours,
                               !.offset = offset, !.hoursPerSegment = hoursPerSegment,
                               !.length = Len(forecast),
                               !.calls = <<"determineHoursPerSegment">>]
    IN  IF tooManyHoursRequested(forecast, numHours, hoursPerSegment, offset)
        THEN [base EXCEPT !.kind = "error"]
        ELSE
        LET daily == isForecastDaily(forecast)
            conditionList == getConditionListFromForecast(forecast, numHours,
                                                          hoursPerSegment, offset)
            temperatures == getTemperatures(forecast, numHours, hoursPerSegment,
                                            offset, h.locale)
            colorSettings == getColorSettings(cfg.colors)
        IN  IF conditionList.threw
            THEN [base EXCEPT !.kind = "threw",
                              !.calls = base.calls \o <<"isForecastDaily",
                                                        "getConditionListFromForecast">>,
                              !.reads = conditionList.reads]
            ELSE IF temperatures.threw
            THEN [base EXCEPT !.kind = "threw",
                              !.calls = base.calls \o <<"isForecastDaily",
                                                        "getConditionListFromForecast",
                                                        "getTemperatures">>,
                              !.reads = conditionList.reads \o temperatures.reads]
            ELSE [base EXCEPT !.kind = "card",
                              !.calls = base.calls \o <<"isForecastDaily",
                                                        "getConditionListFromForecast",
                                                        "getTemperatures",
                                                        "getColorSettings">>,
                              !.reads = conditionList.reads \o temperatures.reads,
                              !.conditions = conditionList.value,
                              !.temperatures = temperatures.value,
                              !.isForecastDaily = daily,
                              !.numHoursNotMultiple = JsRemNonZero(numHours, hoursPerSegment),
                              !.colors = colorSettings.validColors,
                              !.warnings = colorSettings.warnings]

\* ------------------------------------------------------------------- inputs
Conditions == {"sunny", "cloudy"}

\* the decimal string of n, 0 <= n <= 99
IntString(n) == IF n < 10 THEN <<Digits[n + 1]>>
                ELSE <<Digits[(n \div 10) + 1], Digits[(n % 10) + 1]>>

\* the forecasts of conds (a sequence of conditions) whose entry i (0-based) is
\* at start + i * step quarter hours with temperature temp + i
ForecastOf(conds, start, step, temp) ==
    [i \in 1 .. Len(conds) |->
        [datetime |-> start + (i - 1) * step, condition |-> conds[i],
         temperature |-> temp + (i - 1)]]

\* all sequences over S of length 0 .. n
SeqsUpTo(S, n) == UNION {[1 .. k -> S] : k \in 0 .. n}

\* num_hours and offset as configured: string-encoded integers, or absent
NumHoursInputs ==
    {UndefinedString, <<"-", "1">>, <<"2", ".", "5">>}
    \cup {IntString(n) : n \in 0 .. MaxNumHours}

OffsetInputs == {UndefinedString, <<"-", "1">>} \cup {IntString(n) : n \in 1 .. MaxOffset}

\* the steps between forecast entries, in quarter hours: descending, equal
\* timestamps, 15 and 30 minutes, 1 h, 90 minutes, 2 h, 3 h, daily
Steps == {0 - 4, 0, 1, 2, 4, 6, 8, 12, 96}

CardConfig(entity, num_hours, offset, colors) ==
    [entity |-> entity, name |-> Undefined, num_hours |-> num_hours,
     offset |-> offset, colors |-> colors]

HassOf(forecast, locale) ==
    [states |-> [e \in {"weather.home"} |-> forecast], locale |-> locale]

NoCall == [fn |-> "none", threw |-> FALSE, value |-> Undefined, reads |-> <<>>]

\* ------------------------------------------------------------- the lifecycle
\* setConfig(c).  The test_gui branch (getLovelace().setEditMode(true)) acts
\* on the dashboard, not on the card, and is left out.
SetConfig(c) ==
    /\ thrown' = setConfigError(c)
    /\ config' = IF setConfigError(c) = "none" THEN storedConfig(c) ELSE config
    /\ UNCHANGED <<hass, view, args, ret>>

\* the host assigns this.hass
SetHass(h) ==
    /\ hass' = h
    /\ UNCHANGED <<config, view, thrown, args, ret>>

\* one update cycle of the element: shouldUpdate, and render when it says so
UpdateCycle ==
    \E changed \in BOOLEAN :
        /\ view' = IF shouldUpdate(config, changed) THEN render(config, hass) ELSE view
        /\ UNCHANGED <<config, hass, thrown, args, ret>>

ConfigInputs ==
    {UndefinedObject, NullObject}
    \cup {CardConfig(e, n, o, UndefinedObject) :
            e \in {Undefined, "", "weather.home", "weather.gone"},
            n \in {UndefinedString, <<"1">>, <<"3">>}, o \in {UndefinedString, <<"1">>}}

HassInputs ==
    {HassOf(ForecastOf(conds, 36, step, 20), "12") :
        conds \in {<<>>, <<"sunny", "sunny">>, <<"sunny", "cloudy", "cloudy">>},
        step \in {4, 96}}

Init ==
    /\ config = UndefinedObject
    /\ hass = UndefinedObject
    /\ view = NoView
    /\ thrown = "none"
    /\ args = UndefinedObject
    /\ ret = NoCall

Next ==
    \/ \E c \in ConfigInputs : SetConfig(c)
    \/ \E h \in HassInputs : SetHass(h)
    \/ UpdateCycle

Spec == Init /\ [][Next]_vars

\* --------------------------------------------------- render on drawn inputs
RenderConfigs ==
    {storedConfig(CardConfig("weather.home", n, o, UndefinedObject)) :
        n \in NumHoursInputs, o \in OffsetInputs}

RenderHass ==
    {HassOf(ForecastOf(conds, 36, step, 20), "24") :
        conds \in SeqsUpTo(Conditions, MaxLen), step \in Steps}

InitRender ==
    /\ config \in RenderConfigs
    /\ hass \in RenderHass
    /\ view = NoView
    /\ thrown = "none"
    /\ args = UndefinedObject
    /\ ret = NoCall

NextRender == UpdateCycle

SpecRender == InitRender /\ [][NextRender]_vars

\* ------------------------------------- the encoder and the extractor, direct
\* the forecast of the end-to-end example: 24 hourly entries, sunny x 6,
\* cloudy x 3, rainy x 15
ExampleForecast ==
    ForecastOf([i \in 1 .. 24 |-> IF i <= 6 THEN "sunny"
                                  ELSE IF i <= 9 THEN "cloudy" ELSE "rainy"],
               0, 4, 20)

\* the arguments render() can pass: hoursPerSegment is what
\* determineHoursPerSegment makes of the forecast (1 below two entries)
WindowArgs ==
    {a \in [forecast : {ForecastOf(conds, 44, 4 * hps, temp) :
                           conds \in SeqsUpTo(Conditions, MaxLen),
                           hps \in (0 - 1) .. MaxHps, temp \in {0 - 3, 20}},
            numHours : (0 - 1) .. MaxNumHours,
            hoursPerSegment : (0 - 1) .. MaxHps,
            offset : 0 .. MaxOffset,
            locale : {"12", "24"}] :
        a.hoursPerSegment = determineHoursPerSegment(a.forecast)}
    \cup {[forecast |-> ExampleForecast, numHours |-> 12, hoursPerSegment |-> 1,
           offset |-> 0, locale |-> "12"]}

CallGetConditionList ==
    /\ ret' = [fn |-> "getConditionListFromForecast"] @@
              getConditionListFromForecast(args.forecast, args.numHours,
                                           args.hoursPerSegment, args.offset)
    /\ UNCHANGED <<config, hass, view, thrown, args>>

CallGetTemperatures ==
    /\ ret' = [fn |-> "getTemperatures"] @@
              getTemperatures(args.forecast, args.numHours, args.hoursPerSegment,
                              args.offset, args.locale)
    /\ UNCHANGED <<config, hass, view, thrown, args>>

InitWindow ==
    /\ config = UndefinedObject
    /\ hass = UndefinedObject
    /\ view = NoView
    /\ thrown = "none"
    /\ args \in WindowArgs
    /\ ret = NoCall

NextWindow == CallGetConditionList \/ CallGetTemperatures

SpecWindow == InitWindow /\ [][NextWindow]_vars

\* ------------------------------------- the detector and the classifier, direct
\* timestamps in quarter hours: within one day, on later days, and on the
\* first of February and of March
Timestamps == {0, 1, 2, 4, 8, 96, 192, 31 * 96, 59 * 96}

SegmentArgs ==
    {[forecast |-> [i \in 1 .. Len(ts) |->
                      [datetime |-> ts[i], condition |-> "sunny", temperature |-> 20]]] :
        ts \in SeqsUpTo(Timestamps, MaxTimestamps)}

CallDetermineHoursPerSegment ==
    /\ ret' = [fn |-> "determineHoursPerSegment", threw |-> FALSE,
               value |-> determineHoursPerSegment(args.forecast), reads |-> <<>>]
    /\ UNCHANGED <<config, hass, view, thrown, args>>

CallIsForecastDaily ==
    /\ ret' = [fn |-> "isForecastDaily", threw |-> FALSE,
               value |-> isForecastDaily(args.forecast), reads |-> <<>>]
    /\ UNCHANGED <<config, hass, view, thrown, args>>

InitSegments ==
    /\ config = UndefinedObject
    /\ hass = UndefinedObject
    /\ view = NoView
    /\ thrown = "none"
    /\ args \in SegmentArgs
    /\ ret = NoCall

NextSegments == CallDetermineHoursPerSegment \/ CallIsForecastDaily

SpecSegments == InitSegments /\ [][NextSegments]_vars

\* ------------------------------------------------------ the validator, direct
ColorKeys == {"sunny", "cloudy", "bogus-condition", "constructor"}

ColorValues == {"red", "#fff", "hsl(0,0%,0%)", "not-a-color"}

\* the entry lists an object can have: no key twice
ColorEntryLists ==
    {e \in SeqsUpTo(ColorKeys \X ColorValues, MaxColorEntries) :
        \A m, n \in 1 .. Len(e) : m # n => e[m][1] # e[n][1]}

ColorArgs ==
    {[colorConfig |-> UndefinedObject]}
    \cup {[colorConfig |-> [entries |-> e]] : e \in ColorEntryLists}

CallGetColorSettings ==
    /\ ret' = [fn |-> "getColorSettings", threw |-> FALSE,
               value |-> getColorSettings(args.colorConfig), reads |-> <<>>]
    /\ UNCHANGED <<config, hass, view, thrown, args>>

InitColors ==
    /\ config = UndefinedObject
    /\ hass = UndefinedObject
    /\ view = NoView
    /\ thrown = "none"
    /\ args \in ColorArgs
    /\ ret = NoCall

NextColors == CallGetColorSettings

SpecColors == InitColors /\ [][NextColors]_vars

\* --------------------------------------------------------------- properties
RECURSIVE SumRunLengths(_)
SumRunLengths(spans) ==
    IF spans = <<>> THEN 0 ELSE spans[1][2] + SumRunLengths(Tail(spans))

RECURSIVE Expand(_)
\* each condition repeated runLength times, in span order
Expand(spans) ==
    IF spans = <<>> THEN <<>>
    ELSE [k \in 1 .. spans[1][2] |-> spans[1][1]] \o Expand(Tail(spans))

RECURSIVE WindowConditionsFrom(_, _)
\* the conditions of the entries of the display window of a direct call, from
\* index i on: the indices i >= offset with
\* i * hoursPerSegment < numHours + offset * hoursPerSegment
WindowConditionsFrom(a, i) ==
    IF i >= Len(a.forecast) THEN <<>>
    ELSE IF i >= a.offset
            /\ i * a.hoursPerSegment < a.numHours + a.offset * a.hoursPerSegment
    THEN <<a.forecast[i + 1].condition>> \o WindowConditionsFrom(a, i + 1)
    ELSE WindowConditionsFrom(a, i + 1)

\* the request of a direct call passes the bounds check of render()
PassesBoundsCheck(a) ==
    a.numHours <= (Len(a.forecast) - a.offset) * a.hoursPerSegment

EncoderReturned == ret.fn = "getConditionListFromForecast"

ExtractorReturned == ret.fn = "getTemperatures"

\* the number of segments a window of numHours hours touches
CeilingDiv(n, d) == (n + d - 1) \div d

\* C1, as stated: for numHours >= 1, hoursPerSegment >= 1 and offset >= 0 that
\* pass the bounds check, the runLength values of the spans returned by
\* getConditionListFromForecast sum to floor(numHours / hoursPerSegment)
C1_SumIsFloor ==
    (/\ EncoderReturned
     /\ args.numHours >= 1 /\ args.hoursPerSegment >= 1 /\ args.offset >= 0
     /\ PassesBoundsCheck(args))
    => /\ ~ret.threw
       /\ SumRunLengths(ret.value) = args.numHours \div args.hoursPerSegment

\* C1, amended: for numHours >= 1, hoursPerSegment >= 1 and offset >= 0 that
\* pass the bounds check, the runLength values sum to
\* ceil(numHours / hoursPerSegment), which is floor(numHours / hoursPerSegment)
\* exactly when numHours is a multiple of hoursPerSegment
C1_SumIsCeiling ==
    (/\ EncoderReturned
     /\ args.numHours >= 1 /\ args.hoursPerSegment >= 1 /\ args.offset >= 0
     /\ PassesBoundsCheck(args))
    => /\ ~ret.threw
       /\ SumRunLengths(ret.value) = CeilingDiv(args.numHours, args.hoursPerSegment)
       /\ (SumRunLengths(ret.value) = args.numHours \div args.hoursPerSegment
             <=> args.numHours % args.hoursPerSegment = 0)

\* a window of several spans whose numHours is no multiple of hoursPerSegment
C1_Witness ==
    /\ EncoderReturned
    /\ args.numHours >= 1 /\ args.hoursPerSegment >= 2 /\ args.offset >= 1
    /\ PassesBoundsCheck(args)
    /\ args.numHours % args.hoursPerSegment # 0
    /\ ~ret.threw
    /\ Len(ret.value) >= 2

\* C2, as stated: for every request that passes the bounds check, the spans
\* returned by getConditionListFromForecast, expanded, are exactly the
\* conditions of the forecast entries of the display window, in forecast order
C2_ExpansionIsWindow ==
    (EncoderReturned /\ PassesBoundsCheck(args))
    => /\ ~ret.threw
       /\ Expand(ret.value) = WindowConditionsFrom(args, 0)

\* C4: for numHours >= 0, hoursPerSegment >= 1 and offset >= 0 that pass the
\* bounds check, getTemperatures returns floor(numHours / hoursPerSegment)
\* entries, the k-th made of the forecast entry at index offset + k
C4_TemperaturesPerWholeSegment ==
    (/\ ExtractorReturned
     /\ args.numHours >= 0 /\ args.hoursPerSegment >= 1 /\ args.offset >= 0
     /\ PassesBoundsCheck(args))
    => /\ ~ret.threw
       /\ Len(ret.value) = args.numHours \div args.hoursPerSegment
       /\ \A k \in 0 .. (Len(ret.value) - 1) :
            /\ InRange(args.forecast, args.offset + k)
            /\ ret.reads[k + 1] = args.offset + k
            /\ ret.value[k + 1] =
                 [hour |-> formatHour(args.forecast[args.offset + k + 1].datetime,
                                      args.locale),
                  temperature |->
                      formatNumber(args.forecast[args.offset + k + 1].temperature)]
       /\ Len(ret.reads) = Len(ret.value)

\* several temperatures, taken from an offset, with hours left over
C4_Witness ==
    /\ ExtractorReturned
    /\ args.numHours >= 0 /\ args.hoursPerSegment >= 2 /\ args.offset >= 1
    /\ PassesBoundsCheck(args)
    /\ args.numHours % args.hoursPerSegment # 0
    /\ ~ret.threw
    /\ Len(ret.value) >= 2
    /\ ret.value[1] # ret.value[2]

\* C5: in every span list getConditionListFromForecast returns for a request
\* that passes the bounds check, no two adjacent spans carry the same
\* condition and every runLength is an integer >= 1
C5_MaximalRuns ==
    (EncoderReturned /\ PassesBoundsCheck(args) /\ ~ret.threw)
    => /\ \A n \in 1 .. (Len(ret.value) - 1) : ret.value[n][1] # ret.value[n + 1][1]
       /\ \A n \in 1 .. Len(ret.value) : ret.value[n][2] \in Nat \ {0}
       /\ Len(ret.value) >= 1

\* a span list of several spans, one of them of several entries
C5_Witness ==
    /\ EncoderReturned /\ PassesBoundsCheck(args) /\ ~ret.threw
    /\ Len(ret.value) >= 2
    /\ \E n \in 1 .. Len(ret.value) : ret.value[n][2] >= 2

\* render() has run as far as its bounds check
Rendered == view.kind # "none" /\ Len(view.calls) >= 1

Extractors == {"getConditionListFromForecast", "getTemperatures"}

CallsOf(v) == {v.calls[n] : n \in 1 .. Len(v.calls)}

\* C3: whenever numHours > (forecast.length - offset) * hoursPerSegment, render
\* returns the request error and neither getConditionListFromForecast nor
\* getTemperatures is invoked, so no span list or temperature list is produced
C3_OverlongRequestIsError ==
    (Rendered /\ view.numHours > (view.length - view.offset) * view.hoursPerSegment)
    => /\ view.kind = "error"
       /\ CallsOf(view) \cap Extractors = {}
       /\ view.reads = <<>>
       /\ view.conditions = Undefined
       /\ view.temperatures = Undefined

\* a request with an offset that the forecast covers from index 0 but not from
\* the offset, refused
C3_Witness ==
    /\ Rendered
    /\ view.offset >= 1 /\ view.numHours >= 1 /\ view.hoursPerSegment >= 1
    /\ view.numHours > (view.length - view.offset) * view.hoursPerSegment
    /\ view.numHours <= view.length * view.hoursPerSegment
    /\ view.kind = "error"

\* C10, as stated: for integers numHours >= 0 and offset >= 0, whenever the
\* bounds check of render passes, every forecast index read by
\* getConditionListFromForecast and by getTemperatures lies in
\* 0 .. forecast.length - 1, the first read forecast[offset] included
C10_ReadsInRange ==
    (Rendered /\ view.kind # "error" /\ view.numHours >= 0 /\ view.offset >= 0)
    => /\ Len(view.reads) >= 1
       /\ view.reads[1] = view.offset
       /\ \A n \in 1 .. Len(view.reads) : view.reads[n] \in 0 .. (view.length - 1)

\* C9: a setConfig call whose config is missing or lacks an entity reference
\* throws and leaves the stored config and the rendering unchanged; shouldUpdate
\* returns false and nothing is rendered as long as no setConfig call has
\* succeeded; the config a render runs with has an entity reference
C9_NoRenderWithoutEntity ==
    /\ [](/\ FalsyObject(config) =>
               /\ view = NoView
               /\ \A changed \in BOOLEAN : ~shouldUpdate(config, changed)
          /\ ~FalsyObject(config) => config.entity \notin {Undefined, Null, ""}
          /\ Rendered => view.entity \notin {Undefined, Null, ""})
    /\ [][\A c \in ConfigInputs :
            (/\ SetConfig(c)
             /\ \/ c \in {UndefinedObject, NullObject}
                \/ c.entity \in {Undefined, Null, ""})
            => /\ thrown' \in {"invalid_configuration", "missing_entity"}
               /\ config' = config
               /\ view' = view]_vars

\* a card that has rendered, and whose last setConfig call threw for want of an
\* entity and left the earlier config in place
C9_Witness ==
    /\ thrown = "missing_entity"
    /\ ~FalsyObject(config)
    /\ view.kind = "card"
    /\ view.entity = config.entity

\* the time between the first two entries of a direct call, in quarter hours
FirstDelta == args.forecast[2].datetime - args.forecast[1].datetime

\* the entries of a direct call are uniformly n hours apart
UniformSpacing(n) ==
    \A i \in 1 .. (Len(args.forecast) - 1) :
        args.forecast[i + 1].datetime - args.forecast[i].datetime = 4 * n

\* C8: determineHoursPerSegment returns 1 for a forecast of fewer than 2
\* entries; otherwise the difference of the first two timestamps in hours
\* rounded to the nearest integer (a half rounds up), whatever the later
\* entries are, and so N for a forecast uniformly N hours apart
C8_HoursPerSegment ==
    ret.fn = "determineHoursPerSegment"
    => /\ Len(args.forecast) < 2 => ret.value = 1
       /\ Len(args.forecast) >= 2 =>
            /\ 4 * ret.value - 2 <= FirstDelta
            /\ FirstDelta < 4 * ret.value + 2
            /\ \A n \in 1 .. (59 * 24) : UniformSpacing(n) => ret.value = n

\* three entries, the first two 45 minutes apart, the third a day later
C8_Witness ==
    /\ ret.fn = "determineHoursPerSegment"
    /\ Len(args.forecast) >= 3
    /\ FirstDelta = 3
    /\ args.forecast[3].datetime - args.forecast[2].datetime >= 96
    /\ ret.value = 1

\* the calendar day of a timestamp: the timestamp truncated to the day
CalendarDay(datetime) == datetime \div 96

\* the calendar days of the forecast of a direct call
CalendarDays == {CalendarDay(args.forecast[i].datetime) : i \in 1 .. Len(args.forecast)}

\* C6, as stated: isForecastDaily returns true exactly when the number of
\* distinct calendar days among the forecast entries is at least
\* forecast.length - 1, also when those days lie in different months
C6_DailyByCalendarDays ==
    ret.fn = "isForecastDaily"
    => (ret.value <=> Cardinality(CalendarDays) >= Len(args.forecast) - 1)

\* an entry of a colour configuration with a recognized condition identifier
\* for key and a valid color for value
Recognized(e) ==
    /\ e[1] \in ICONS
    /\ isValidRGB(e[2]) \/ isValidColorName(e[2]) \/ isValidHSL(e[2])

RECURSIVE Accepted(_)
Accepted(entries) ==
    IF entries = <<>> THEN <<>>
    ELSE (IF Recognized(entries[1]) THEN <<entries[1]>> ELSE <<>>)
         \o Accepted(Tail(entries))

RECURSIVE Rejected(_)
Rejected(entries) ==
    IF entries = <<>> THEN <<>>
    ELSE (IF Recognized(entries[1]) THEN <<>> ELSE <<entries[1][1] \o ": " \o entries[1][2]>>)
         \o Rejected(Tail(entries))

\* C7, as stated: getColorSettings puts an entry in validColors if and only if
\* its key is a recognized condition identifier and its value a valid color,
\* every other entry gives one warning "key: value", in input order; an absent
\* config gives validColors undefined and no warnings
C7_ColorPartition ==
    ret.fn = "getColorSettings"
    => IF args.colorConfig = UndefinedObject
       THEN ret.value = [validColors |-> Undefined, warnings |-> <<>>]
       ELSE /\ ret.value.validColors = Accepted(args.colorConfig.entries)
            /\ ret.value.warnings = Rejected(args.colorConfig.entries)
            /\ Len(ret.value.validColors) + Len(ret.value.warnings)
                 = Len(args.colorConfig.entries)

====
